---- MODULE Spec2Model ----
(***************************************************************************)
(* SuperHireX: the swipe ledger, the match detection of recordSwipe and    *)
(* the card stack of the App component.                                    *)
(*                                                                         *)
(* The repository holds two snapshots of the client:                       *)
(*   "root"     App.tsx + services/swipeService.ts, which talks to the     *)
(*              Supabase tables directly, and the DataService that selects *)
(*              from the jobs table (services/geminiService.ts:65-99);     *)
(*   "frontend" the seeker-only App (unnamed/part_006:161-), whose         *)
(*              SwipeService (unnamed/part_005:49-82) and DataService      *)
(*              (frontend/services/dataService.ts) call the backend API.   *)
(* The snapshot is chosen in Init (variant) and never changes.             *)
(*                                                                         *)
(* Every await of the code is a step boundary: a call of recordSwipe is a  *)
(* record that moves through pc values, one step per store request, and so *)
(* is a load of the feed; sign-in and sign-out end in a step of their own  *)
(* when the identity provider has answered.                                *)
(***************************************************************************)
EXTENDS Naturals, Sequences, FiniteSets

VARIABLES
    variant,    \* which snapshot of the client runs
    swipes,     \* the swipes table: a sequence of rows, in insertion order
    matches,    \* the matches table: a sequence of rows, in insertion order
    supaSession, \* supabase.auth: the user of the stored session, per client
    authSession, \* App.tsx snapshot: AuthService.session, per client
    authTimer,  \* App.tsx snapshot: setTimeout(() => onSuccess(), 800) pending
    signingOut, \* handleLogout awaiting supabase.auth.signOut(), per client
    session,    \* App state: session (App.tsx) / user (part_006), per client
    jobs,       \* App state: the card stack (jobs / candidates), per client
    loading,    \* App state: loading, per client
    fetches,    \* loadData invocations awaiting dataService.getJobs, per client
    loadSeq,    \* number of loadData invocations started so far, per client
    calls,      \* handleSwipe invocations awaiting recordSwipe, per client
    showMatch,  \* App state: showMatch, per client
    timers,     \* pending setTimeout(() => setShowMatch(false), 3000), per client
    authCheck,  \* part_006: the initial supabase.auth.getSession() is pending
    gestures    \* number of user gestures made so far

vars == <<variant, swipes, matches, supaSession, authSession, authTimer,
          signingOut, session, jobs, loading, fetches, loadSeq, calls,
          showMatch, timers, authCheck, gestures>>

----------------------------------------------------------------------------
(* Bounds *)

\* user gestures (login, logout, swipe, refresh) in one behaviour
MaxGestures == 4
\* recordSwipe calls one client may have in flight
MaxInFlight == 2
\* getJobs fetches one client may have in flight
MaxFetches == 2

----------------------------------------------------------------------------
(* Identifiers *)

NULL == "null"

\* Two clients, each with the account of its own user.
Users == {"u1", "u2"}

\* userId of the demo session of AuthService.verifyOTP
DEMO == "demo-user-id"

\* The e-mail address of a user's account stands for the user.
DemoEmails == {"demo@superhirex.com", "demo@kergox.com"}

\* "otp" is the code the identity provider has sent to the address.
Codes == {"otp", "1234"}

Other(u) == IF u = "u1" THEN "u2" ELSE "u1"

\* The sample cards of the fallback feed.
MOCK_JOBS == <<"j1", "j2", "j3">>

\* The rows of the live table a user's feed is selected from: the card of the
\* other party.  recordSwipe looks for the reciprocal swipe with
\* swiper_id = targetId, so a card that can answer carries its owner's id.
LiveTable(u) == <<Other(u)>>

Directions == {"left", "right"}

\* The order of ids used for a canonical participant pair.
Rank(id) == CASE id = "u1" -> 1 [] id = "u2" -> 2 [] id = "j1" -> 3
              [] id = "j2" -> 4 [] OTHER -> 5

----------------------------------------------------------------------------
(* The store *)

\* Mutant of SwipeRow: the swiper and the target in each other's column.
SwipeRowSwapped(s, t, d) == [swiper_id |-> t, target_id |-> s, type |-> d]

SwipeRow(s, t, d) == [swiper_id |-> s, target_id |-> t, type |-> d]

MatchRow(a, b) == [user_a |-> a, user_b |-> b]

RowsOf(table) == {table[i] : i \in 1..Len(table)}

\* rows of the swipes table for one (swiper, target)
SwipesOf(s, t) == {i \in 1..Len(swipes) :
                      swipes[i].swiper_id = s /\ swipes[i].target_id = t}

\* Mutant of SwipeKeyFree: the swipes table without its unique constraint.
SwipeKeyUnconstrained(s, t) == TRUE

\* UNIQUE(swiper_id, target_id, target_type): the client never varies the
\* target type of a target, so the key is (swiper_id, target_id).
SwipeKeyFree(s, t) == SwipesOf(s, t) = {}

\* Mutant of SwipesInsert: an upsert, which replaces the row of the key.
SwipesUpsert(row, ok) ==
    IF ~ok THEN [table |-> swipes, error |-> "unavailable"]
    ELSE [table |-> SelectSeq(swipes,
                       LAMBDA r : ~(r.swiper_id = row.swiper_id
                                    /\ r.target_id = row.target_id))
                    \o <<row>>,
          error |-> NULL]

\* supabase.from('swipes').insert(row): the table after the request and the
\* error it answers with.  ok = FALSE is the store being unavailable.
SwipesInsert(row, ok) ==
    IF ok /\ SwipeKeyFree(row.swiper_id, row.target_id)
    THEN [table |-> Append(swipes, row), error |-> NULL]
    ELSE [table |-> swipes,
          error |-> IF ok THEN "duplicate" ELSE "unavailable"]

\* data = null of a query answer; a row that is there is <<row>>
NoRow == <<>>

\* Mutant of SelectReciprocal: the query filters on a type that no row has,
\* so that it never finds the reciprocal swipe.
SelectReciprocalWrongType(s, t, ok) ==
    IF ~ok THEN [data |-> NoRow, error |-> "unavailable"]
    ELSE [data |-> NoRow, error |-> "PGRST116"]

\* .select('*').eq(swiper_id).eq(target_id).eq(type,'right').single():
\* one row is data; no row (or several) is an error with data = null.
SelectReciprocal(s, t, ok) ==
    LET found == {i \in 1..Len(swipes) :
                     /\ swipes[i].swiper_id = s
                     /\ swipes[i].target_id = t
                     /\ swipes[i].type = "right"}
    IN  IF ~ok THEN [data |-> NoRow, error |-> "unavailable"]
        ELSE IF Cardinality(found) = 1
             THEN [data |-> <<swipes[CHOOSE i \in found : TRUE]>>,
                   error |-> NULL]
             ELSE [data |-> NoRow, error |-> "PGRST116"]

\* UNIQUE on the participants of a match row.
MatchKeyFree(row) == row \notin RowsOf(matches)

\* supabase.from('matches').insert(row): the table after the request and the
\* error it answers with.
MatchesInsert(row, ok) ==
    IF ok /\ MatchKeyFree(row)
    THEN [table |-> Append(matches, row), error |-> NULL]
    ELSE [table |-> matches,
          error |-> IF ok THEN "duplicate" ELSE "unavailable"]

----------------------------------------------------------------------------
(* The backend API of the frontend snapshot (its server is not part of the  *)
(* sources; modelled from the specification, sections 4.2 to 4.4)           *)

\* GET /jobs: the live rows, without the cards the user has a swipe on.
BackendFeed(u) ==
    SelectSeq(LiveTable(u), LAMBDA id : SwipeKeyFree(u, id))

\* "absence of a valid token yields 401": u is the user of the bearer token
BackendAuthorized(u) == u # NULL

\* the participants of a match in canonical order
CanonicalMatchRow(a, b) ==
    IF Rank(a) <= Rank(b) THEN MatchRow(a, b) ELSE MatchRow(b, a)

\* POST /swipe for the user of the bearer token: rejects a duplicate, appends
\* the swipe, and for a right swipe with a reciprocal right swipe answers
\* is_match = true and creates the match row if it is absent.
BackendRecordSwipe(u, t, d, ok) ==
    LET reciprocal == \E i \in 1..Len(swipes) :
                         /\ swipes[i].swiper_id = t
                         /\ swipes[i].target_id = u
                         /\ swipes[i].type = "right"
        hit == d = "right" /\ reciprocal
        row == CanonicalMatchRow(u, t)
    IN  IF ~ok \/ ~BackendAuthorized(u) \/ ~SwipeKeyFree(u, t)
        THEN [thrown |-> TRUE, is_match |-> FALSE,
              swipes |-> swipes, matches |-> matches]
        ELSE [thrown |-> FALSE, is_match |-> hit,
              swipes |-> Append(swipes, SwipeRow(u, t, d)),
              matches |-> IF hit /\ MatchKeyFree(row)
                          THEN Append(matches, row) ELSE matches]

----------------------------------------------------------------------------
(* DataService *)

\* frontend/services/dataService.ts: the backend's feed, or MOCK_JOBS when
\* the request throws.
GetJobsApi(u, ok) == IF ok THEN BackendFeed(u) ELSE MOCK_JOBS

\* services/geminiService.ts: the rows of the table as they are, or MOCK_JOBS
\* on an error or an empty answer.
GetJobsSupabase(u, ok) ==
    IF ~ok \/ Len(LiveTable(u)) = 0 THEN MOCK_JOBS ELSE LiveTable(u)

GetJobs(u, ok) ==
    IF variant = "frontend" THEN GetJobsApi(u, ok) ELSE GetJobsSupabase(u, ok)

\* What getJobs hands over besides the cards. Both branches return the bare
\* array (Promise<Job[]>; a Job has no source field): the catch writes a
\* console.warn and returns MOCK_JOBS, the legacy service returns MOCK_JOBS
\* silently.
FeedMark(ok) == NULL

----------------------------------------------------------------------------
(* SwipeService.recordSwipe *)

\* getAccessToken: session?.access_token || null, named by its user
GetAccessToken(c) == supaSession[c]

\* A call of recordSwipe: its arguments, its position and its locals.
\* pc: "insert" / "select" / "minsert" await the three Supabase requests,
\* "token" awaits getAccessToken and "api" the backend request (token is the
\* bearer token of that request), "resolved" is the returned promise.
\* matchInsertError is the answer of the matches insert, which the code
\* does not look at.
NewCall(userId, targetId, direction) ==
    [userId |-> userId, targetId |-> targetId, direction |-> direction,
     pc |-> IF variant = "frontend" THEN "token" ELSE "insert",
     token |-> NULL,
     swipeError |-> NULL, reciprocalSwipe |-> NoRow, matchError |-> NULL,
     matchInsertError |-> NULL, isMatch |-> FALSE]

\* Mutant of FallbackIsMatch: the fallback without its direction test.
FallbackIgnoresDirection(direction, rnd) == rnd

\* "Fallback random match": rnd is Math.random() > 0.8
FallbackIsMatch(direction, rnd) == direction = "right" /\ rnd

Resolve(call, isMatch) == [call EXCEPT !.pc = "resolved", !.isMatch = isMatch]

\* lines 20-27: after the insert has answered
AfterInsert(call, error, rnd) ==
    IF error # NULL
    THEN Resolve([call EXCEPT !.swipeError = error],
                 FallbackIsMatch(call.direction, rnd))
    ELSE IF call.direction = "right"
         THEN [call EXCEPT !.pc = "select"]
         ELSE Resolve(call, FALSE)

\* lines 36-46: after the reciprocal query has answered
AfterSelect(call, res) ==
    LET c2 == [call EXCEPT !.reciprocalSwipe = res.data,
                           !.matchError = res.error]
    IN  IF res.data # NoRow /\ res.error = NULL
        THEN [c2 EXCEPT !.pc = "minsert"]
        ELSE Resolve(c2, FALSE)

\* Mutant of AfterApi: recordSwipe without its try/catch, so that a request
\* that throws rejects the promise handleSwipe awaits.
AfterApiNoCatch(call, res, rnd) ==
    IF res.thrown
    THEN [call EXCEPT !.pc = "rejected", !.swipeError = "thrown"]
    ELSE Resolve(call, res.is_match)

\* part_005 lines 66-80: after the backend has answered or the request threw
AfterApi(call, res, rnd) ==
    IF res.thrown
    THEN Resolve([call EXCEPT !.swipeError = "thrown"],
                 FallbackIsMatch(call.direction, rnd))
    ELSE Resolve(call, res.is_match)

SetCall(c, i, call) == [calls EXCEPT ![c][i] = call]

UIUnchanged == UNCHANGED <<variant, supaSession, authSession, authTimer,
                           signingOut, session, jobs, loading, fetches,
                           loadSeq, showMatch, timers, authCheck, gestures>>

\* 1. Record the swipe in the database
SwipeInsert(c, i, ok, rnd) ==
    /\ calls[c][i].pc = "insert"
    /\ LET call == calls[c][i]
           res == SwipesInsert(
                     SwipeRow(call.userId, call.targetId, call.direction), ok)
       IN  /\ swipes' = res.table
           /\ calls' = SetCall(c, i, AfterInsert(call, res.error, rnd))
    /\ UNCHANGED matches
    /\ UIUnchanged

\* 2. Check for reciprocal match if liked
SwipeSelect(c, i, ok) ==
    /\ calls[c][i].pc = "select"
    /\ LET call == calls[c][i]
           res == SelectReciprocal(call.targetId, call.userId, ok)
       IN  calls' = SetCall(c, i, AfterSelect(call, res))
    /\ UNCHANGED <<swipes, matches>>
    /\ UIUnchanged

\* Record the match in a matches table; return { isMatch: true }
MatchInsert(c, i, ok) ==
    /\ calls[c][i].pc = "minsert"
    /\ LET call == calls[c][i]
           res == MatchesInsert(MatchRow(call.userId, call.targetId), ok)
       IN  /\ matches' = res.table
           /\ calls' = SetCall(c, i,
                          Resolve([call EXCEPT !.matchInsertError = res.error],
                                  TRUE))
    /\ UNCHANGED swipes
    /\ UIUnchanged

\* apiRequest up to its fetch: const token = await getAccessToken(); the
\* Authorization header is added only if there is a token
ApiToken(c, i) ==
    /\ calls[c][i].pc = "token"
    /\ calls' = SetCall(c, i, [calls[c][i] EXCEPT !.pc = "api",
                                                  !.token = GetAccessToken(c)])
    /\ UNCHANGED <<swipes, matches>>
    /\ UIUnchanged

\* the frontend snapshot: api.recordSwipe, with the swiper taken from the
\* bearer token of the request
ApiRecordSwipe(c, i, ok, rnd) ==
    /\ calls[c][i].pc = "api"
    /\ LET call == calls[c][i]
           res == BackendRecordSwipe(call.token, call.targetId,
                                     call.direction, ok)
       IN  /\ swipes' = res.swipes
           /\ matches' = res.matches
           /\ calls' = SetCall(c, i, AfterApi(call, res, rnd))
    /\ UIUnchanged

----------------------------------------------------------------------------
(* App *)

Top(stack) == stack[Len(stack)]

\* Mutant of RemoveCard: the first card of the array leaves, whatever the id.
RemoveCardShift(stack, id) == IF stack = <<>> THEN stack ELSE Tail(stack)

\* prev.filter(j => j.id !== id)
RemoveCard(stack, id) == SelectSeq(stack, LAMBDA x : x # id)

\* What the App renders.  part_006 returns the spinner page while loading;
\* App.tsx keeps the header and the footer buttons and hides only the cards.
\* The match overlay (fixed inset-0 z-[100]) covers every other control.
MainView(c) ==
    /\ session[c] # NULL
    /\ ~showMatch[c]
    /\ (variant = "frontend" => ~loading[c])

\* the sign-in form: App.tsx shows it whenever there is no session,
\* part_006 after the spinner page
AuthFormView(c) ==
    /\ session[c] = NULL
    /\ (variant = "frontend" => ~loading[c])

\* the "Refresh Data" button of the empty stack
RefreshView(c) == MainView(c) /\ ~loading[c] /\ Len(jobs[c]) = 0

Gesture == /\ gestures < MaxGestures
           /\ gestures' = gestures + 1

AuthUnchanged == UNCHANGED <<supaSession, authSession, authTimer, signingOut>>

\* A loadData invocation awaiting getJobs.  id is its start number; pc:
\* "token" awaits getAccessToken (apiRequest), "request" is the request on
\* its way, "response" the answer on its way back with its data; ok is
\* whether the request succeeded.
NewFetch(id) ==
    [id |-> id, pc |-> IF variant = "frontend" THEN "token" ELSE "request",
     token |-> NULL, ok |-> TRUE, data |-> <<>>]

\* loadData up to its await: setLoading(true), then getJobs is in flight
LoadDataStart(c) ==
    /\ Len(fetches[c]) < MaxFetches
    /\ loading' = [loading EXCEPT ![c] = TRUE]
    /\ loadSeq' = [loadSeq EXCEPT ![c] = @ + 1]
    /\ fetches' = [fetches EXCEPT ![c] = Append(@, NewFetch(loadSeq[c] + 1))]

\* part_006: supabase.auth.getSession() answers (then or catch): no stored
\* session, setUser(null), setLoading(false)
AuthSessionCheck(c) ==
    /\ authCheck[c]
    /\ authCheck' = [authCheck EXCEPT ![c] = FALSE]
    /\ loading' = [loading EXCEPT ![c] = FALSE]
    /\ AuthUnchanged
    /\ UNCHANGED <<variant, swipes, matches, session, jobs, fetches, loadSeq,
                   calls, showMatch, timers, gestures>>

\* supabase.auth.verifyOtp / signInWithPassword: the provider accepts the
\* code it has sent to the address of an account, when it can be reached
ProviderAccepts(email, code, ok) == ok /\ email \in Users /\ code = "otp"

\* App.tsx snapshot, AuthForm.handleVerify with AuthService.verifyOTP: the
\* provider's session, or the demo session when the provider answers with an
\* error, or the error thrown to the form.  On success the form schedules
\* onSuccess.
VerifyOTP(c, email, code, ok) ==
    /\ variant = "root"
    /\ AuthFormView(c)
    /\ ~authTimer[c]
    /\ Gesture
    /\ IF ProviderAccepts(email, code, ok)
       THEN /\ supaSession' = [supaSession EXCEPT ![c] = email]
            /\ authSession' = [authSession EXCEPT ![c] = email]
            /\ authTimer' = [authTimer EXCEPT ![c] = TRUE]
       ELSE IF email \in DemoEmails /\ code = "1234"
            THEN /\ authSession' = [authSession EXCEPT ![c] = DEMO]
                 /\ authTimer' = [authTimer EXCEPT ![c] = TRUE]
                 /\ UNCHANGED supaSession
            ELSE UNCHANGED <<supaSession, authSession, authTimer>>
    /\ UNCHANGED <<variant, swipes, matches, signingOut, session, jobs,
                   loading, fetches, loadSeq, calls, showMatch, timers,
                   authCheck>>

\* App.tsx snapshot, 800 ms later: handleAuthSuccess sets the session to
\* authService.getCurrentSession(), and the effect on [role, session,
\* loadData] calls loadData if there is one
HandleAuthSuccess(c) ==
    /\ authTimer[c]
    /\ authTimer' = [authTimer EXCEPT ![c] = FALSE]
    /\ session' = [session EXCEPT ![c] = authSession[c]]
    /\ IF authSession[c] # NULL
       THEN LoadDataStart(c)
       ELSE UNCHANGED <<loading, loadSeq, fetches>>
    /\ UNCHANGED <<variant, swipes, matches, supaSession, authSession,
                   signingOut, jobs, calls, showMatch, timers, authCheck,
                   gestures>>

\* part_006 snapshot, AuthForm with AuthService.signIn: on success the
\* onAuthStateChange listener sets user, and the effect on [user, loadData]
\* calls loadData; on an error the form shows it
SignIn(c, code, ok) ==
    /\ variant = "frontend"
    /\ AuthFormView(c)
    /\ Gesture
    /\ IF ProviderAccepts(c, code, ok)
       THEN /\ supaSession' = [supaSession EXCEPT ![c] = c]
            /\ session' = [session EXCEPT ![c] = c]
            /\ LoadDataStart(c)
       ELSE UNCHANGED <<supaSession, session, loading, loadSeq, fetches>>
    /\ UNCHANGED <<variant, swipes, matches, authSession, authTimer,
                   signingOut, jobs, calls, showMatch, timers, authCheck>>

\* handleLogout up to the sign-out request.  App.tsx does not await
\* authService.logout(): it clears session and role at once and keeps the
\* stacks.  part_006 awaits it.
Logout(c) ==
    /\ MainView(c)
    /\ ~signingOut[c]
    /\ Gesture
    /\ signingOut' = [signingOut EXCEPT ![c] = TRUE]
    /\ session' = [session EXCEPT ![c] = IF variant = "root" THEN NULL ELSE @]
    /\ UNCHANGED <<variant, swipes, matches, supaSession, authSession,
                   authTimer, jobs, loading, fetches, loadSeq, calls,
                   showMatch, timers, authCheck>>

\* supabase.auth.signOut() has answered: the stored session is removed.
\* App.tsx snapshot: AuthService.logout then sets this.session = null.
\* part_006: the listener clears user, and handleLogout empties the stack.
LogoutDone(c) ==
    /\ signingOut[c]
    /\ signingOut' = [signingOut EXCEPT ![c] = FALSE]
    /\ supaSession' = [supaSession EXCEPT ![c] = NULL]
    /\ authSession' = [authSession EXCEPT ![c] = NULL]
    /\ session' = [session EXCEPT ![c] = IF variant = "frontend" THEN NULL
                                         ELSE @]
    /\ jobs' = [jobs EXCEPT ![c] = IF variant = "frontend" THEN <<>> ELSE @]
    /\ UNCHANGED <<variant, swipes, matches, authTimer, loading, fetches,
                   loadSeq, calls, showMatch, timers, authCheck, gestures>>

RemoveAt(seq, i) == SubSeq(seq, 1, i - 1) \o SubSeq(seq, i + 1, Len(seq))

FetchUnchanged == UNCHANGED <<variant, swipes, matches, session, calls,
                              loadSeq, showMatch, timers, authCheck, gestures>>

\* apiRequest of getJobs up to its fetch: const token = await getAccessToken()
FetchToken(c, i) ==
    /\ fetches[c][i].pc = "token"
    /\ fetches' = [fetches EXCEPT ![c][i] =
                      [@ EXCEPT !.pc = "request", !.token = GetAccessToken(c)]]
    /\ UNCHANGED <<jobs, loading>>
    /\ AuthUnchanged
    /\ FetchUnchanged

\* the store or the backend answers the request of getJobs; the backend
\* answers 401 to a request without a token
FetchAnswer(c, i, ok) ==
    /\ fetches[c][i].pc = "request"
    /\ LET good == ok /\ (variant = "frontend" =>
                             BackendAuthorized(fetches[c][i].token))
       IN  fetches' = [fetches EXCEPT ![c][i] =
                          [@ EXCEPT !.pc = "response", !.ok = good,
                                    !.data = GetJobs(c, good)]]
    /\ UNCHANGED <<jobs, loading>>
    /\ AuthUnchanged
    /\ FetchUnchanged

\* Mutant of LoadDataDone: getJobs without its catch, so that a failed fetch
\* rejects loadData before setJobs and setLoading(false).
LoadDataDoneNoCatch(c, i) ==
    /\ fetches[c][i].pc = "response"
    /\ fetches' = [fetches EXCEPT ![c] = RemoveAt(@, i)]
    /\ jobs' = [jobs EXCEPT ![c] = IF fetches[c][i].ok
                                   THEN fetches[c][i].data ELSE @]
    /\ loading' = [loading EXCEPT ![c] = IF fetches[c][i].ok THEN FALSE ELSE @]
    /\ AuthUnchanged
    /\ FetchUnchanged

\* loadData after its await: getJobs has returned the answer, or the sample
\* cards after a failure; setJobs(data); setLoading(false)
LoadDataDone(c, i) ==
    /\ fetches[c][i].pc = "response"
    /\ fetches' = [fetches EXCEPT ![c] = RemoveAt(@, i)]
    /\ jobs' = [jobs EXCEPT ![c] = fetches[c][i].data]
    /\ loading' = [loading EXCEPT ![c] = FALSE]
    /\ AuthUnchanged
    /\ FetchUnchanged

\* Mutant of ResetStack: a refresh that also forgets the user's swipes.
ResetStackClearsLedger(c) ==
    /\ RefreshView(c)
    /\ Gesture
    /\ LoadDataStart(c)
    /\ swipes' = SelectSeq(swipes, LAMBDA row : row.swiper_id # session[c])
    /\ AuthUnchanged
    /\ UNCHANGED <<variant, matches, session, jobs, calls, showMatch, timers,
                   authCheck>>

\* resetStack: dataService.refresh() only logs; loadData()
ResetStack(c) ==
    /\ RefreshView(c)
    /\ Gesture
    /\ LoadDataStart(c)
    /\ AuthUnchanged
    /\ UNCHANGED <<variant, swipes, matches, session, jobs, calls, showMatch,
                   timers, authCheck>>

\* Mutant of HandleSwipe: the card is left in the stack at submit time.
HandleSwipeKeepsCard(c, direction) ==
    /\ session[c] # NULL
    /\ ~showMatch[c]
    /\ (variant = "frontend" => ~loading[c])
    /\ Len(jobs[c]) > 0
    /\ Len(calls[c]) < MaxInFlight
    /\ Gesture
    /\ calls' = [calls EXCEPT
                   ![c] = Append(@, NewCall(session[c], jobs[c][Len(jobs[c])],
                                            direction))]
    /\ AuthUnchanged
    /\ UNCHANGED <<variant, swipes, matches, session, jobs, loading, fetches,
                   loadSeq, showMatch, timers, authCheck>>

\* Mutant of HandleSwipe: neither the render nor the handler tests the
\* session, so that the footer buttons act on a signed-out client.
HandleSwipeNoSession(c, direction) ==
    /\ ~showMatch[c]
    /\ (variant = "frontend" => ~loading[c])
    /\ Len(jobs[c]) > 0
    /\ Len(calls[c]) < MaxInFlight
    /\ Gesture
    /\ LET id == Top(jobs[c])
       IN  /\ jobs' = [jobs EXCEPT ![c] = RemoveCard(@, id)]
           /\ calls' = [calls EXCEPT
                          ![c] = Append(@, NewCall(session[c], id, direction))]
    /\ AuthUnchanged
    /\ UNCHANGED <<variant, swipes, matches, session, loading, fetches,
                   loadSeq, showMatch, timers, authCheck>>

\* handleSwipe up to its await, on the top card (a drag of the card, or a
\* footer button, which App.tsx also shows while loading): the card leaves
\* the stack, then recordSwipe is called
HandleSwipe(c, direction) ==
    /\ MainView(c)
    /\ Len(jobs[c]) > 0
    /\ Len(calls[c]) < MaxInFlight
    /\ Gesture
    /\ LET id == Top(jobs[c])
       IN  /\ jobs' = [jobs EXCEPT ![c] = RemoveCard(@, id)]
           /\ calls' = [calls EXCEPT
                          ![c] = Append(@, NewCall(session[c], id, direction))]
    /\ AuthUnchanged
    /\ UNCHANGED <<variant, swipes, matches, session, loading, fetches,
                   loadSeq, showMatch, timers, authCheck>>

\* handleSwipe after its await: if (isMatch) { setShowMatch(true);
\* setTimeout(() => setShowMatch(false), 3000) }
HandleSwipeResume(c, i) ==
    /\ calls[c][i].pc = "resolved"
    /\ calls' = [calls EXCEPT ![c] = RemoveAt(@, i)]
    /\ IF calls[c][i].isMatch
       THEN /\ showMatch' = [showMatch EXCEPT ![c] = TRUE]
            /\ timers' = [timers EXCEPT ![c] = @ + 1]
       ELSE UNCHANGED <<showMatch, timers>>
    /\ AuthUnchanged
    /\ UNCHANGED <<variant, swipes, matches, session, jobs, loading, fetches,
                   loadSeq, authCheck, gestures>>

\* the 3000 ms timer of a match fires
TimerFire(c) ==
    /\ timers[c] > 0
    /\ timers' = [timers EXCEPT ![c] = @ - 1]
    /\ showMatch' = [showMatch EXCEPT ![c] = FALSE]
    /\ AuthUnchanged
    /\ UNCHANGED <<variant, swipes, matches, session, jobs, loading, fetches,
                   loadSeq, calls, authCheck, gestures>>

\* Mutant of Dismiss: "Keep Swiping" also empties the stack.
DismissClearsStack(c) ==
    /\ showMatch[c]
    /\ session[c] # NULL
    /\ (variant = "frontend" => ~loading[c])
    /\ showMatch' = [showMatch EXCEPT ![c] = FALSE]
    /\ jobs' = [jobs EXCEPT ![c] = <<>>]
    /\ AuthUnchanged
    /\ UNCHANGED <<variant, swipes, matches, session, loading, fetches,
                   loadSeq, calls, timers, authCheck, gestures>>

\* "Keep Swiping"
Dismiss(c) ==
    /\ showMatch[c]
    /\ session[c] # NULL
    /\ (variant = "frontend" => ~loading[c])
    /\ showMatch' = [showMatch EXCEPT ![c] = FALSE]
    /\ AuthUnchanged
    /\ UNCHANGED <<variant, swipes, matches, session, jobs, loading, fetches,
                   loadSeq, calls, timers, authCheck, gestures>>

----------------------------------------------------------------------------
(* Specification *)

Init ==
    /\ variant \in {"root", "frontend"}
    /\ swipes = <<>>
    /\ matches = <<>>
    /\ supaSession = [c \in Users |-> NULL]
    /\ authSession = [c \in Users |-> NULL]
    /\ authTimer = [c \in Users |-> FALSE]
    /\ signingOut = [c \in Users |-> FALSE]
    /\ session = [c \in Users |-> NULL]
    /\ jobs = [c \in Users |-> <<>>]
    /\ loading = [c \in Users |-> variant = "frontend"]
    /\ fetches = [c \in Users |-> <<>>]
    /\ loadSeq = [c \in Users |-> 0]
    /\ calls = [c \in Users |-> <<>>]
    /\ showMatch = [c \in Users |-> FALSE]
    /\ timers = [c \in Users |-> 0]
    /\ authCheck = [c \in Users |-> variant = "frontend"]
    /\ gestures = 0

\* a step of a recordSwipe call of client c
CallStep(c) ==
    \E i \in 1..Len(calls[c]), ok \in BOOLEAN, rnd \in BOOLEAN :
        \/ SwipeInsert(c, i, ok, rnd)
        \/ SwipeSelect(c, i, ok)
        \/ MatchInsert(c, i, ok)
        \/ ApiToken(c, i)
        \/ ApiRecordSwipe(c, i, ok, rnd)
        \/ HandleSwipeResume(c, i)

\* a step of a getJobs fetch of client c
FetchStep(c) ==
    \E i \in 1..Len(fetches[c]), ok \in BOOLEAN :
        \/ FetchToken(c, i)
        \/ FetchAnswer(c, i, ok)
        \/ LoadDataDone(c, i)

Next ==
    \E c \in Users :
        \/ AuthSessionCheck(c)
        \/ \E email \in {c} \cup DemoEmails, code \in Codes, ok \in BOOLEAN :
              VerifyOTP(c, email, code, ok)
        \/ HandleAuthSuccess(c)
        \/ \E code \in Codes, ok \in BOOLEAN : SignIn(c, code, ok)
        \/ Logout(c)
        \/ LogoutDone(c)
        \/ \E i \in 1..Len(fetches[c]) : FetchToken(c, i)
        \/ \E i \in 1..Len(fetches[c]), ok \in BOOLEAN : FetchAnswer(c, i, ok)
        \/ \E i \in 1..Len(fetches[c]) : LoadDataDone(c, i)
        \/ ResetStack(c)
        \/ \E d \in Directions : HandleSwipe(c, d)
        \/ \E i \in 1..Len(calls[c]), ok \in BOOLEAN, rnd \in BOOLEAN :
              SwipeInsert(c, i, ok, rnd)
        \/ \E i \in 1..Len(calls[c]), ok \in BOOLEAN : SwipeSelect(c, i, ok)
        \/ \E i \in 1..Len(calls[c]), ok \in BOOLEAN : MatchInsert(c, i, ok)
        \/ \E i \in 1..Len(calls[c]) : ApiToken(c, i)
        \/ \E i \in 1..Len(calls[c]), ok \in BOOLEAN, rnd \in BOOLEAN :
              ApiRecordSwipe(c, i, ok, rnd)
        \/ \E i \in 1..Len(calls[c]) : HandleSwipeResume(c, i)
        \/ TimerFire(c)
        \/ Dismiss(c)

Spec == Init /\ [][Next]_vars

\* Every request in flight is eventually answered (it resolves or rejects)
\* and its continuation runs, and so does the initial session check.
Fairness ==
    \A c \in Users :
        /\ WF_vars(FetchStep(c))
        /\ WF_vars(CallStep(c))
        /\ WF_vars(AuthSessionCheck(c))

FairSpec == Spec /\ Fairness

----------------------------------------------------------------------------
(* Properties *)

Ids == Users \cup RowsOf(MOCK_JOBS)

Swipers == Users \cup {DEMO}

HasSwipe(s, t, d) == SwipeRow(s, t, d) \in RowsOf(swipes)

\* both right swipes of a pair are in the ledger
Mutual(a, b) == HasSwipe(a, b, "right") /\ HasSwipe(b, a, "right")

\* the match rows of the pair {a, b}, whichever way round they were written
MatchesOf(a, b) ==
    {i \in 1..Len(matches) : matches[i] \in {MatchRow(a, b), MatchRow(b, a)}}

\* C1: the ledger holds at most one swipe row for every (user, target),
\* whatever calls of recordSwipe were made.
C1_Uniqueness ==
    \A s \in Swipers, t \in Ids : Cardinality(SwipesOf(s, t)) <= 1

\* C1 witness: a second swipe of the same (user, target), in the other
\* direction, was rejected and the ledger still holds the one row.
C1_Witness ==
    \E c \in Users : \E i \in 1..Len(calls[c]) :
        /\ calls[c][i].swipeError = "duplicate"
        /\ Cardinality(SwipesOf(calls[c][i].userId, calls[c][i].targetId)) = 1
        /\ ~HasSwipe(calls[c][i].userId, calls[c][i].targetId,
                     calls[c][i].direction)

\* C2: recordSwipe returns isMatch = true, with a match record, if and only
\* if both right swipes of the pair are in the ledger: a returned match has
\* both swipes and a record, and a mutual pair whose calls have all returned
\* has a record.
C2_MatchIffMutual ==
    /\ \A c \in Users : \A i \in 1..Len(calls[c]) :
          (calls[c][i].pc = "resolved" /\ calls[c][i].isMatch) =>
              /\ Mutual(calls[c][i].userId, calls[c][i].targetId)
              /\ MatchesOf(calls[c][i].userId, calls[c][i].targetId) # {}
    /\ \A a \in Users, b \in Users :
          (/\ a # b
           /\ Mutual(a, b)
           /\ \A c \in Users : \A i \in 1..Len(calls[c]) :
                 calls[c][i].pc = "resolved") => MatchesOf(a, b) # {}

\* C3: one mutual pair has exactly one match record, whichever side or
\* sides detected it.
C3_OneMatchPerPair ==
    \A a \in Users, b \in Users : Cardinality(MatchesOf(a, b)) <= 1

\* C4: a feed loaded for a user holds no card the user has a swipe on, in
\* the ledger or still in flight; the fallback feed included.
C4_FeedExclusion ==
    [][\A c \in Users :
          Len(fetches'[c]) < Len(fetches[c]) =>
              \A k \in 1..Len(jobs'[c]) :
                  /\ SwipeKeyFree(c, jobs'[c][k])
                  /\ \A i \in 1..Len(calls[c]) :
                        calls[c][i].targetId # jobs'[c][k]]_vars

\* C5: a load never stays in LOADING: whenever loading is set it is cleared
\* again, also when the fetch fails.
C5_NeverStuckLoading ==
    \A c \in Users : loading[c] ~> ~loading[c]

\* C5 witness: a load whose fetch failed has ended with the sample stack.
C5_Witness ==
    \E c \in Users :
        /\ session[c] # NULL
        /\ ~loading[c]
        /\ fetches[c] = <<>>
        /\ jobs[c] = MOCK_JOBS

\* C6: the submit step of a swipe removes the card before the ledger is
\* asked (the call is still awaiting its first request and the ledger is
\* untouched), and no later step of the call, whatever its outcome, changes
\* the stack.
C6_OptimisticRemoval ==
    [][\A c \in Users :
          /\ Len(calls'[c]) > Len(calls[c]) =>
                LET call == calls'[c][Len(calls'[c])]
                IN  /\ call.pc \in {"insert", "token"}
                    /\ call.targetId \notin RowsOf(jobs'[c])
                    /\ swipes' = swipes
          /\ (Len(calls'[c]) <= Len(calls[c]) /\ calls'[c] # calls[c]) =>
                jobs'[c] = jobs[c]]_vars

\* C6 witness: the ledger call of a swipe has failed and its card is not in
\* the stack.
C6_Witness ==
    \E c \in Users : \E i \in 1..Len(calls[c]) :
        /\ calls[c][i].pc = "resolved"
        /\ calls[c][i].swipeError # NULL
        /\ calls[c][i].targetId \notin RowsOf(jobs[c])

\* C7: a left swipe never runs the reciprocal check, never returns
\* isMatch = true and never writes a match; a pair with a left swipe in the
\* ledger has no match record.
C7_LeftNeverMatches ==
    /\ \A c \in Users : \A i \in 1..Len(calls[c]) :
          calls[c][i].direction = "left" =>
              /\ calls[c][i].pc \notin {"select", "minsert"}
              /\ calls[c][i].reciprocalSwipe = NoRow
              /\ ~calls[c][i].isMatch
    /\ \A a \in Swipers, b \in Ids :
          HasSwipe(a, b, "left") => MatchesOf(a, b) = {}

\* C7 witness: a left swipe is in the ledger, and the right swipe of the
\* other party on the same pairing has run its reciprocal check and returned.
C7_Witness ==
    \E a \in Users : \E i \in 1..Len(calls[Other(a)]) :
        /\ HasSwipe(a, Other(a), "left")
        /\ HasSwipe(Other(a), a, "right")
        /\ calls[Other(a)][i].targetId = a
        /\ calls[Other(a)][i].pc = "resolved"
        /\ calls[Other(a)][i].matchError = "PGRST116"

\* C8: a swipe rejected as a duplicate adds no row, creates no match and
\* reports no match.
C8_DuplicateReportsNoMatch ==
    \A c \in Users : \A i \in 1..Len(calls[c]) :
        (calls[c][i].pc = "resolved" /\ calls[c][i].swipeError = "duplicate")
            => /\ ~calls[c][i].isMatch
               /\ Cardinality(SwipesOf(calls[c][i].userId,
                                       calls[c][i].targetId)) = 1

\* C9: a call of recordSwipe that could not write or read the ledger never
\* returns isMatch = true.
C9_FailClosed ==
    \A c \in Users : \A i \in 1..Len(calls[c]) :
        (/\ calls[c][i].pc = "resolved"
         /\ \/ calls[c][i].swipeError \in {"unavailable", "thrown"}
            \/ calls[c][i].matchError = "unavailable")
            => ~calls[c][i].isMatch

\* C10: a right swipe whose reciprocal check failed returns a value other
\* than the one of a right swipe whose check completed and found nothing.
C10_IndeterminateDistinct ==
    \A c \in Users, d \in Users :
        \A i \in 1..Len(calls[c]) : \A j \in 1..Len(calls[d]) :
            (/\ calls[c][i].pc = "resolved"
             /\ calls[d][j].pc = "resolved"
             /\ calls[c][i].swipeError = NULL
             /\ calls[d][j].swipeError = NULL
             /\ calls[c][i].matchError = "unavailable"
             /\ calls[d][j].matchError = "PGRST116")
                => calls[c][i].isMatch # calls[d][j].isMatch

\* a right swipe of user a on the other party whose call has returned with
\* every one of its store requests answered without failure
ReturnedClean(a) ==
    \E i \in 1..Len(calls[a]) :
        /\ calls[a][i].userId = a
        /\ calls[a][i].targetId = Other(a)
        /\ calls[a][i].direction = "right"
        /\ calls[a][i].pc = "resolved"
        /\ calls[a][i].swipeError = NULL
        /\ calls[a][i].matchError # "unavailable"
        /\ calls[a][i].matchInsertError # "unavailable"

\* C11: when two clients right-swipe each other and both calls of recordSwipe
\* have returned, their requests interleaved in whatever order and none of
\* them failed, the pair has exactly one match record: not two, not none.
C11_ConcurrentExactlyOne ==
    \A a \in Users :
        (ReturnedClean(a) /\ ReturnedClean(Other(a)))
            => Cardinality(MatchesOf(a, Other(a))) = 1

\* C12: a fetch of the feed that completes after a fetch started later has
\* completed does not overwrite the stack: when a load completes, either
\* every load the client started after it is still in flight, or the stack
\* stays as it is.
C12_LastRequestWins ==
    [][\A c \in Users : \A i \in 1..Len(fetches[c]) :
          (/\ fetches[c][i].pc = "response"
           /\ fetches'[c] = RemoveAt(fetches[c], i)
           /\ jobs'[c] = fetches[c][i].data)
              => \/ \A n \in (fetches[c][i].id + 1)..loadSeq[c] :
                       \E j \in 1..Len(fetches[c]) : fetches[c][j].id = n
                 \/ jobs'[c] = jobs[c]]_vars

\* the state of the card stack controller, from the loading flag and the stack
StackState(isLoading, stack) ==
    IF isLoading THEN "LOADING" ELSE IF Len(stack) > 0 THEN "READY" ELSE "EMPTY"

\* C13: the card stack controller is in LOADING when a session starts, and
\* within a session its state changes only from LOADING to READY or EMPTY
\* when a load completes, from READY to READY or EMPTY by a swipe, and from
\* EMPTY to LOADING by a refresh.
C13_StackStateMachine ==
    [][\A c \in Users :
          LET a == StackState(loading[c], jobs[c])
              b == StackState(loading'[c], jobs'[c])
          IN  /\ (session[c] = NULL /\ session'[c] # NULL) => b = "LOADING"
              /\ (session[c] # NULL /\ session'[c] # NULL) =>
                    \/ a = b /\ (a # "READY" \/ jobs'[c] = jobs[c])
                    \/ /\ a = "LOADING"
                       /\ b \in {"READY", "EMPTY"}
                       /\ Len(fetches'[c]) < Len(fetches[c])
                    \/ /\ a = "READY"
                       /\ b \in {"READY", "EMPTY"}
                       /\ Len(calls'[c]) > Len(calls[c])
                    \/ /\ a = "EMPTY"
                       /\ b = "LOADING"
                       /\ loadSeq'[c] > loadSeq[c]]_vars

\* the swipe row a step appends to the ledger, as <<row>>, or <<>>
Written == IF Len(swipes') > Len(swipes) THEN <<swipes'[Len(swipes')]>>
           ELSE <<>>

\* C14 as stated: whenever a swipe row is written, its swiper is signed in
\* on a client at that moment.
C14_SwiperAuthenticatedAtWrite ==
    [][\A k \in 1..Len(Written) :
          \E c \in Users : session[c] = Written[k].swiper_id]_vars

\* C14 amended: a call of recordSwipe is made for the identity signed in on
\* the client at the moment of the gesture, and the row a call writes has
\* that identity as its swiper and the target and direction of the call.
C14_SwiperIsSubmitter ==
    [][/\ \A c \in Users :
             Len(calls'[c]) > Len(calls[c]) =>
                 /\ session[c] # NULL
                 /\ calls'[c][Len(calls'[c])].userId = session[c]
       /\ \A k \in 1..Len(Written) :
             \E c \in Users : \E i \in 1..Len(calls[c]) :
                 /\ calls[c][i].pc \in {"insert", "api"}
                 /\ calls'[c][i].pc # calls[c][i].pc
                 /\ Written[k] = [swiper_id |-> calls[c][i].userId,
                                  target_id |-> calls[c][i].targetId,
                                  type |-> calls[c][i].direction]]_vars

\* C14 witness: a swipe is in the ledger, its call has not yet returned to
\* handleSwipe, and the client that made it is logged out.
C14_Witness ==
    \E c \in Users : \E i \in 1..Len(calls[c]) :
        /\ session[c] = NULL
        /\ calls[c][i].swipeError = NULL
        /\ calls[c][i].pc \in {"select", "minsert", "resolved"}
        /\ Cardinality(SwipesOf(calls[c][i].userId, calls[c][i].targetId)) = 1

\* C15: the swipe ledger is append-only: every step leaves the rows that are
\* stored as they are and where they are, and at most adds a row at the end.
C15_AppendOnly ==
    [][/\ Len(swipes') >= Len(swipes)
       /\ SubSeq(swipes', 1, Len(swipes)) = swipes]_vars

\* C15 witness: both right swipes of a pair are still in the ledger after a
\* match record was created for them.
C15_Witness ==
    \E a \in Users : Mutual(a, Other(a)) /\ MatchesOf(a, Other(a)) # {}

\* C16: a refresh and the fetch it starts change nothing but the stack and
\* the loading flag (and the fetch itself): the ledger, the match records,
\* the sessions and the calls of recordSwipe stay as they are.
C16_RefreshFrame ==
    [][\A c \in Users :
          (/\ session'[c] = session[c]
           /\ \/ loadSeq'[c] > loadSeq[c]
              \/ fetches'[c] # fetches[c])
              => UNCHANGED <<swipes, matches, supaSession, authSession,
                             session, calls, showMatch, timers>>]_vars

\* C16 witness: a client has signed in, swiped, refreshed the empty stack and
\* got the new stack, and its swipe is in the ledger.
C16_Witness ==
    \E c \in Users :
        /\ gestures = 3
        /\ loadSeq[c] = 2
        /\ loadSeq[Other(c)] = 0
        /\ session[c] = c
        /\ ~signingOut[c]
        /\ fetches[c] = <<>>
        /\ Len(jobs[c]) > 0
        /\ \E t \in Ids : SwipesOf(c, t) # {}

\* C17: when a logout completes, getCurrentSession() returns null and the
\* App holds no session.
C17_LogoutClearsIdentity ==
    [][\A c \in Users :
          (signingOut[c] /\ ~signingOut'[c]) =>
              /\ authSession'[c] = NULL
              /\ session'[c] = NULL]_vars

\* C18: a session exists only after the identity provider has accepted the
\* credentials: the session AuthService holds (App.tsx snapshot) and the
\* user the App holds (part_006 snapshot) is the user of the provider's
\* session.
C18_SessionOnlyIfAccepted ==
    \A c \in Users :
        /\ (variant = "root" /\ authSession[c] # NULL)
              => supaSession[c] = authSession[c]
        /\ (variant = "frontend" /\ session[c] # NULL)
              => supaSession[c] = session[c]

\* C19: swipe errors are not fatal: whatever the store or the backend
\* answers, every call of recordSwipe in flight resolves and handleSwipe
\* completes, so that the calls of a client are all over again.
C19_SwipeCallsComplete ==
    \A c \in Users : (Len(calls[c]) > 0) ~> (Len(calls[c]) = 0)

\* C19 witness: calls have resolved after a failed write, after a failed
\* query and after a failed match insert or a thrown request.
C19_Witness ==
    \E c \in Users : \E i \in 1..Len(calls[c]) :
        /\ calls[c][i].pc = "resolved"
        /\ \/ calls[c][i].matchInsertError = "unavailable"
           \/ calls[c][i].swipeError = "thrown"

\* C20: every request the client has sent to the backend API carries a
\* bearer token.
C20_RequestsCarryToken ==
    \A c \in Users :
        /\ \A i \in 1..Len(calls[c]) :
              calls[c][i].pc = "api" => calls[c][i].token # NULL
        /\ \A i \in 1..Len(fetches[c]) :
              (variant = "frontend" /\ fetches[c][i].pc = "request")
                  => fetches[c][i].token # NULL

\* C21: a feed that getJobs built from the sample cards because the source
\* was unavailable reaches loadData with a mark that a live feed does not
\* carry.
C21_FallbackMarked ==
    \A c \in Users : \A i \in 1..Len(fetches[c]) :
        (fetches[c][i].pc = "response" /\ ~fetches[c][i].ok)
            => /\ fetches[c][i].data = MOCK_JOBS
               /\ FeedMark(fetches[c][i].ok) # FeedMark(TRUE)

\* C22: when the ledger has rejected a swipe as a duplicate, the return of
\* its call to handleSwipe shows nothing: the overlay state and the stack
\* stay as they are.
C22_DuplicateShowsNothing ==
    [][\A c \in Users : \A i \in 1..Len(calls[c]) :
          (/\ calls[c][i].pc = "resolved"
           /\ calls[c][i].swipeError = "duplicate"
           /\ calls'[c] = RemoveAt(calls[c], i))
              => UNCHANGED <<showMatch, timers, jobs, loading>>]_vars

\* C23: the match overlay is transient: a step that shows or hides it
\* changes nothing else of the controller, the stack, the session, the
\* loading flag and the ledger stay as they are, and hiding it leaves the
\* calls in flight alone.
C23_OverlayTransient ==
    [][\A c \in Users :
          showMatch'[c] # showMatch[c] =>
              /\ UNCHANGED <<jobs, session, loading, swipes, matches,
                             supaSession, authSession, fetches, loadSeq>>
              /\ showMatch[c] => UNCHANGED calls]_vars

\* C23 witness: an overlay was shown and then dismissed with "Keep Swiping"
\* (its timer is still pending) over a stack that still has cards.
C23_Witness ==
    \E c \in Users :
        /\ ~showMatch[c]
        /\ timers[c] > 0
        /\ session[c] # NULL
        /\ Len(jobs[c]) > 0

\* C24: inside recordSwipe the reciprocal query and the match insert run
\* only for a call whose own insert succeeded, and a call whose insert
\* failed has queried nothing, inserted no match and, on its return to
\* handleSwipe, raises no overlay.
C24_MatchOnlyAfterWrite ==
    [][\A c \in Users : \A i \in 1..Len(calls[c]) :
          calls[c][i].swipeError # NULL =>
              /\ calls[c][i].pc \notin {"select", "minsert"}
              /\ calls[c][i].reciprocalSwipe = NoRow
              /\ calls[c][i].matchInsertError = NULL
              /\ (/\ calls[c][i].pc = "resolved"
                  /\ calls'[c] = RemoveAt(calls[c], i))
                     => UNCHANGED <<showMatch, timers, matches>>]_vars

\* C25: a swipe removes exactly the swiped card: the stack loses the one
\* card with the id handed to recordSwipe, the other cards keep their
\* order, so that each swipe shortens the stack by one; removing an id that
\* is not in the stack leaves the stack as it is.
C25_SwipeRemovesExactlyCard ==
    [][\A c \in Users :
          /\ Len(calls'[c]) > Len(calls[c]) =>
                LET id == calls'[c][Len(calls'[c])].targetId
                IN  /\ Len(jobs'[c]) = Len(jobs[c]) - 1
                    /\ id \notin RowsOf(jobs'[c])
                    /\ \E k \in 1..Len(jobs[c]) :
                          /\ jobs[c][k] = id
                          /\ jobs'[c] = RemoveAt(jobs[c], k)
          /\ \A id \in Ids \ RowsOf(jobs[c]) :
                RemoveCard(jobs[c], id) = jobs[c]]_vars

\* C25 witness: a client has swiped the three sample cards one after the
\* other and its stack is empty.
C25_Witness ==
    \E c \in Users :
        /\ session[c] # NULL
        /\ ~loading[c]
        /\ jobs[c] = <<>>
        /\ loadSeq[c] = 1
        /\ \A j \in RowsOf(MOCK_JOBS) :
              \/ SwipesOf(session[c], j) # {}
              \/ \E i \in 1..Len(calls[c]) : calls[c][i].targetId = j

\* the right swipe of a at the other user has returned and its own write
\* succeeded
WriteReturned(a) ==
    {i \in 1..Len(calls[a]) :
        /\ calls[a][i].userId = a
        /\ calls[a][i].targetId = Other(a)
        /\ calls[a][i].direction = "right"
        /\ calls[a][i].pc = "resolved"
        /\ calls[a][i].swipeError = NULL}

C27_NothingWithoutSession ==
    [][\A c \in Users :
          session[c] = NULL =>
              /\ Len(calls'[c]) <= Len(calls[c])
              /\ showMatch'[c] => showMatch[c]
              /\ \A i \in 1..Len(calls[c]) :
                    (calls[c][i].pc \in {"insert", "api"}
                        /\ calls'[c][i].pc # calls[c][i].pc)
                       => swipes' = swipes]_vars

\* C27 amended: while a client holds no session no swipe is submitted: no
\* call of recordSwipe is made and no card leaves the stack by a swipe (the
\* stack changes only by a completing load or the end of the logout).
C27_NoSubmitWithoutSession ==
    [][\A c \in Users :
          session[c] = NULL =>
              /\ Len(calls'[c]) <= Len(calls[c])
              /\ jobs'[c] # jobs[c] =>
                    \/ Len(fetches'[c]) < Len(fetches[c])
                    \/ signingOut[c] /\ ~signingOut'[c]]_vars

\* C27 witness: a client that has swiped and logged out holds no session,
\* has no call in flight and still has cards in its stack.
C27_Witness ==
    \E c \in Users :
        /\ session[c] = NULL
        /\ ~signingOut[c]
        /\ calls[c] = <<>>
        /\ Len(jobs[c]) > 0
        /\ \E t \in Ids : SwipesOf(c, t) # {}

\* C28: while a client is loading its feed no swipe is issued: no call of
\* recordSwipe is made, from a card or from the footer buttons.
C28_NoSwipeWhileLoading ==
    [][\A c \in Users :
          loading[c] => Len(calls'[c]) <= Len(calls[c])]_vars

\* C29: in the seeker-only App a client that holds no user has an empty job
\* stack: the logout empties it and nothing fills it before the next login.
C29_EmptyAfterLogout ==
    \A c \in Users :
        (variant = "frontend" /\ session[c] = NULL) => jobs[c] = <<>>

\* C30: a visible overlay is hidden only by "Keep Swiping" or by a timer,
\* and the timer that hides it is the one started with it: timers fire in
\* the order they were started, so the timer that fires is the overlay's
\* own only if no older timer is pending.
C30_OwnTimerHides ==
    [][\A c \in Users :
          (showMatch[c] /\ ~showMatch'[c]) =>
              \/ timers'[c] = timers[c]
              \/ timers[c] = 1]_vars

====
